---------------------------- MODULE Spec2Model ----------------------------
(***************************************************************************)
(* A model of text_sanitizer_auto.py: the line-aligned chunker             *)
(* (chunk_text), the process-wide RateLimiter gate, the tenacity retry     *)
(* wrapped around clean_text_chunk, the per-document pipeline              *)
(* (process_text_file) and the batch aggregation of main.                  *)
(*                                                                         *)
(* Strings are sequences of one-character strings, so that len, split,     *)
(* join, strip and concatenation are computed as Python computes them.     *)
(***************************************************************************)
EXTENDS Integers, Sequences, FiniteSets, TLC

VARIABLES
    \* ---- RateLimiter (shared by all workers)
    calls,      \* self.calls; calls[k] is the age now - t of the k-th recorded
                \* timestamp t, saturating at period (the code reads t only
                \* through now - t < period and period - (now - calls[0]))
    lock,       \* self.lock: 0 when free, else the worker holding it
    now,        \* now[w]: age of the wrapper's local `now` while w is in the gate
    sleep,      \* sleep[w]: time units left of the time.sleep() w is in
    started,    \* history (RateSpec): ages (< period) of the moments the gate
                \* released a call
    \* ---- worker threads
    pc,         \* pc[w]: where worker w is
    \* ---- process_text_file, one activation per worker
    text,           \* text[w]: contents of the source document of w
    bound,          \* bound[w]: the locals among chunks, cleaned_chunks already assigned
    chunks,         \* chunks[w]: chunks = chunk_text(text)
    cleaned_chunks, \* cleaned_chunks[w]
    log_data,       \* log_data[w]: the log record being built
    files,          \* files[w][n]: contents of chunk file <base>_chunk_<n>.txt
    output,         \* output[w]: what was written to <base>_cleaned.txt, in order
    log_file,       \* log_file[w]: what was written to <base>_log.json, in order
    i,              \* i[w]: chunk_number of the chunk being processed
    chunk,          \* chunk[w]: text re-read from the chunk file
    cleaned_chunk,  \* cleaned_chunk[w]
    was_cleaned,    \* was_cleaned[w]
    attempt,        \* attempt[w]: tenacity's attempt_number inside clean_text_chunk
    waits,          \* waits[w]: the backoff sleeps of the current clean_text_chunk call
    nap,            \* nap[w]: length asked of the time.sleep() w is in (backoff, pause)
    result,         \* result[w]: how process_text_file ended (a pair, or an exception)
    \* ---- history of a worker (read by properties only)
    persisted,      \* persisted[w]: invoker results in the order their chunks were finished
    outcomes,       \* outcomes[w]: service outcomes of the current clean_text_chunk call
    all_rejected,   \* all_rejected[w]: every service call so far was a rejection
    torn,           \* torn[w]: some chunk-file write failed after truncating the file
    \* ---- main
    mpc,                  \* where main is
    collected,            \* futures whose result() main has taken
    successful_files,
    total_chunks,
    total_cleaned_chunks,
    failed_files,
    \* ---- chunk_text called on its own (ChunkSpec)
    in_text, in_size, cpc, out_chunks, out_lines

gateVars == <<calls, lock, now, sleep, started>>
docVars == <<text, bound, chunks, cleaned_chunks, log_data, files, output,
             log_file, i, chunk, cleaned_chunk, was_cleaned, attempt, waits,
             nap, result, persisted, outcomes, all_rejected, torn>>
mainVars == <<mpc, collected, successful_files, total_chunks,
              total_cleaned_chunks, failed_files>>
chunkVars == <<in_text, in_size, cpc, out_chunks, out_lines>>
vars == <<calls, lock, now, sleep, started, pc, docVars, mainVars, chunkVars>>

(***************************************************************************)
(* Bounds of the model.                                                    *)
(***************************************************************************)
\* longest text handed to chunk_text in ChunkSpec
MaxTextLen == 5
\* largest target size handed to chunk_text in ChunkSpec
MaxChunkSize == 3
\* RateLimiter(max_calls, period): the class is generic in both; the model
\* instantiates it with a small window instead of the program's 999 per 60
max_calls == 1
period == 2

NL == "\n"
SP == " "
\* the characters texts are built from: a letter, a blank, a line break
Alphabet == {"a", SP, NL}
\* str.strip() removes these from both ends
Whitespace == {SP, NL}

Min(a, b) == IF a < b THEN a ELSE b
Max(a, b) == IF a > b THEN a ELSE b

(***************************************************************************)
(* Python string helpers.                                                  *)
(***************************************************************************)
\* text.split('\n'): always at least one (possibly empty) line
RECURSIVE SplitFrom(_, _, _)
SplitFrom(txt, k, cur) ==
    IF k > Len(txt) THEN <<cur>>
    ELSE IF txt[k] = NL THEN <<cur>> \o SplitFrom(txt, k + 1, <<>>)
    ELSE SplitFrom(txt, k + 1, Append(cur, txt[k]))

Split(txt) == SplitFrom(txt, 1, <<>>)

\* '\n'.join(lines)
RECURSIVE Join(_)
Join(lines) ==
    IF lines = <<>> THEN <<>>
    ELSE IF Len(lines) = 1 THEN lines[1]
    ELSE lines[1] \o <<NL>> \o Join(Tail(lines))

\* s.strip(): drop leading and trailing whitespace
RECURSIVE LStrip(_)
LStrip(s) ==
    IF s # <<>> /\ s[1] \in Whitespace THEN LStrip(Tail(s)) ELSE s

RECURSIVE RStrip(_)
RStrip(s) ==
    IF s # <<>> /\ s[Len(s)] \in Whitespace
    THEN RStrip(SubSeq(s, 1, Len(s) - 1)) ELSE s

Strip(s) == RStrip(LStrip(s))

\* a chunk survives "if chunk.strip()"
NonEmptyChunk(c) == Strip(c) # <<>>

\* [chunk for chunk in chunks if chunk.strip()]
RECURSIVE SkipEmpty(_)
SkipEmpty(cs) ==
    IF cs = <<>> THEN <<>>
    ELSE (IF NonEmptyChunk(cs[1]) THEN <<cs[1]>> ELSE <<>>)
         \o SkipEmpty(Tail(cs))

(***************************************************************************)
(* chunk_text                                                              *)
(***************************************************************************)
\* a faulty variant of ChunkLoop: the size test leaves out the line that is
\* about to be added
RECURSIVE ChunkLoopLate(_, _, _)
ChunkLoopLate(lines, size, st) ==
    IF lines = <<>> THEN st
    ELSE
        LET line == lines[1]
            closed ==
                IF st.current_size > size /\ st.current_chunk # <<>>
                THEN [chunks |-> Append(st.chunks, Join(st.current_chunk)),
                      current_chunk |-> <<>>,
                      current_size |-> 0]
                ELSE st
        IN ChunkLoopLate(Tail(lines), size,
                         [chunks |-> closed.chunks,
                          current_chunk |-> Append(closed.current_chunk, line),
                          current_size |-> closed.current_size + Len(line) + 1])

\* the loop over text.split('\n'): st = [chunks, current_chunk, current_size]
RECURSIVE ChunkLoop(_, _, _)
ChunkLoop(lines, size, st) ==
    IF lines = <<>> THEN st
    ELSE
        LET line == lines[1]
            closed ==
                IF st.current_size + Len(line) > size /\ st.current_chunk # <<>>
                THEN [chunks |-> Append(st.chunks, Join(st.current_chunk)),
                      current_chunk |-> <<>>,
                      current_size |-> 0]
                ELSE st
        IN ChunkLoop(Tail(lines), size,
                     [chunks |-> closed.chunks,
                      current_chunk |-> Append(closed.current_chunk, line),
                      current_size |-> closed.current_size + Len(line) + 1])

\* a faulty variant of RawChunks: the "if current_chunk:" after the loop is
\* forgotten, so the chunk still open at the end of the text is never closed
RawChunksNoTail(txt, size) ==
    ChunkLoop(Split(txt), size,
              [chunks |-> <<>>, current_chunk |-> <<>>, current_size |-> 0]).chunks

\* the chunk list before the empty chunks are skipped
RawChunks(txt, size) ==
    LET st == ChunkLoop(Split(txt), size,
                        [chunks |-> <<>>, current_chunk |-> <<>>, current_size |-> 0])
    IN IF st.current_chunk # <<>>
       THEN Append(st.chunks, Join(st.current_chunk))
       ELSE st.chunks

chunk_text(txt, size) == SkipEmpty(RawChunks(txt, size))

(***************************************************************************)
(* RateLimiter.__call__ / wrapper                                          *)
(***************************************************************************)
\* the worker threads: one per document of the batch
\* (ThreadPoolExecutor(max_workers=len(txt_files)))
Workers == {1, 2}

\* [t for t in self.calls if now - t < self.period]
RECURSIVE Prune(_)
Prune(cs) ==
    IF cs = <<>> THEN <<>>
    ELSE (IF cs[1] < period THEN <<cs[1]>> ELSE <<>>) \o Prune(Tail(cs))

\* a faulty variant of WindowFull: the comparison is off by one
WindowFullLoose(cs) == Len(cs) > max_calls

\* len(self.calls) >= self.max_calls
WindowFull(cs) == Len(cs) >= max_calls

\* sleep_time = self.period - (now - self.calls[0])
SleepTime(cs) == period - cs[1]

\* the timestamp self.calls.append(now) records, as an age: the local `now`
\* was read before the sleep
RecordedAge(w) == now[w]

\* with self.lock: now = time.time(); prune; if full: time.sleep(sleep_time)
\* begins (the lock stays held); else append(now), leave the lock, call func
GateEnter(w) ==
    /\ pc[w] = "gate"
    /\ lock = 0
    /\ LET kept == Prune(calls)
       IN IF WindowFull(kept)
          THEN /\ calls' = kept
               /\ lock' = w
               /\ now' = [now EXCEPT ![w] = 0]
               /\ sleep' = [sleep EXCEPT ![w] = SleepTime(kept)]
               /\ pc' = [pc EXCEPT ![w] = "gate_sleep"]
          ELSE /\ calls' = Append(kept, 0)
               /\ pc' = [pc EXCEPT ![w] = "call"]
               /\ UNCHANGED <<lock, now, sleep>>
    /\ UNCHANGED <<docVars, mainVars, chunkVars>>

\* a faulty variant of GateWake: the waiter goes on to func without leaving
\* the lock
GateWakeKeepsLock(w) ==
    /\ pc[w] = "gate_sleep"
    /\ sleep[w] = 0
    /\ calls' = Append(calls, RecordedAge(w))
    /\ now' = [now EXCEPT ![w] = 0]
    /\ pc' = [pc EXCEPT ![w] = "call"]
    /\ UNCHANGED <<lock, sleep, docVars, mainVars, chunkVars>>

\* time.sleep(sleep_time) is over: self.calls.append(now), leave the lock,
\* call func
GateWake(w) ==
    /\ pc[w] = "gate_sleep"
    /\ sleep[w] = 0
    /\ calls' = Append(calls, RecordedAge(w))
    /\ lock' = 0
    /\ now' = [now EXCEPT ![w] = 0]
    /\ pc' = [pc EXCEPT ![w] = "call"]
    /\ UNCHANGED <<sleep, docVars, mainVars, chunkVars>>

\* the starts still inside the trailing window after one more time unit
RECURSIVE AgeWindow(_)
AgeWindow(ages) ==
    IF ages = <<>> THEN <<>>
    ELSE (IF ages[1] + 1 < period THEN <<ages[1] + 1>> ELSE <<>>)
         \o AgeWindow(Tail(ages))

\* one time unit passes (time.time() grows by one): every recorded timestamp
\* ages, the sleep inside the gate gets shorter.  Only the gate reads the
\* clock, so the time between two passes through the gate is let pass while
\* the later caller stands at the gate (about to take the lock, or asleep
\* in it)
Tick ==
    /\ \E w \in Workers : pc[w] \in {"gate", "gate_sleep"}
    /\ calls' = [k \in DOMAIN calls |-> Min(period, calls[k] + 1)]
    /\ started' = AgeWindow(started)
    /\ sleep' = [w \in Workers |-> Max(0, sleep[w] - 1)]
    /\ now' = [w \in Workers |->
                 IF pc[w] = "gate_sleep" THEN Min(period, now[w] + 1) ELSE now[w]]
    /\ UNCHANGED <<lock, pc, docVars, mainVars, chunkVars>>

\* RateLimiter.__init__
GateInit ==
    /\ calls = <<>>
    /\ lock = 0
    /\ now = [w \in Workers |-> 0]
    /\ sleep = [w \in Workers |-> 0]
    /\ started = <<>>

(***************************************************************************)
(* The transformation service and the retry policy of clean_text_chunk     *)
(***************************************************************************)
\* what response.content[0].text can be (clean_text_chunk strips it)
Responses == {<<SP, "y", NL>>}

\* one service call: cleaned text, a content-filtering APIError, or any
\* other error
ServiceOutcomes ==
    {[kind |-> "text", text |-> r] : r \in Responses}
        \cup {[kind |-> "rejected", text |-> <<>>],
              [kind |-> "error", text |-> <<>>]}

\* @retry(stop=stop_after_attempt(3), wait=wait_exponential(multiplier=1, min=4, max=10))
StopAttempts == 3
WaitMultiplier == 1
WaitMin == 4
WaitMax == 10
\* wait_exponential's exp_base, left at tenacity's default
ExpBase == 2
\* time.sleep(5) before the same chunk is tried again
PauseSeconds == 5

RECURSIVE Pow(_, _)
Pow(b, n) == IF n = 0 THEN 1 ELSE b * Pow(b, n - 1)

\* a faulty variant of StopAfterAttempt: gives up one attempt early
StopAfterAttemptEarly(attempt_number) == attempt_number >= StopAttempts - 1

\* stop_after_attempt(3): give up once this many attempts have been made
StopAfterAttempt(attempt_number) == attempt_number >= StopAttempts

\* a faulty variant of WaitExponential: min is taken for the first delay,
\* which then doubles
WaitExponentialFromMin(attempt_number) ==
    Min(WaitMin * Pow(ExpBase, attempt_number - 1), WaitMax)

\* wait_exponential.__call__: multiplier * exp_base ** (attempt_number - 1),
\* clamped to [min, max]
WaitExponential(attempt_number) ==
    LET exp == Pow(ExpBase, attempt_number - 1)
        res == WaitMultiplier * exp
    IN Max(Max(0, WaitMin), Min(res, WaitMax))

\* a faulty variant of IsContentFiltering: the rejection is never recognised
IsContentFilteringNever(kind) == FALSE

\* except anthropic.APIError as e: "content filtering" in str(e).lower()
IsContentFiltering(kind) == kind = "rejected"

(***************************************************************************)
(* process_text_file                                                       *)
(***************************************************************************)
\* the documents a batch is made of: no text, one chunk, two chunks
DocTexts == {<<>>, <<"a">>, <<"a", "b", NL, "c", "d">>}

\* the batches: documents of at most MaxBatchLen characters in all, the
\* longer document first
MaxBatchLen == 5
Batches ==
    {b \in [Workers -> DocTexts] :
        /\ Len(b[1]) + Len(b[2]) <= MaxBatchLen
        /\ Len(b[1]) >= Len(b[2])}

\* most chunk-level failures a batch goes through (bounds the "while True"
\* loop, which tries a failed chunk again for ever)
MaxErrors == 1

\* chunk_text(text) is called with the default chunk_size; the model scales
\* the default of 200 down to the size of its documents
chunk_size == 2

Locals == {"chunks", "cleaned_chunks"}

\* log_data as created; keys holds the keys added later
NewLog ==
    [status |-> "processing", errors |-> <<>>, chunks_info |-> <<>>,
     keys |-> {}, total_chunks |-> 0, cleaned_chunks |-> 0]

\* a faulty variant of DocFailed: the error is recorded, the status is left
DocFailedKeepStatus(ld) == [ld EXCEPT !.errors = Append(@, 0)]

\* except Exception as e (document level): status failed, str(e) recorded
\* (an error string is modelled by the chunk number it names, 0 for none)
DocFailed(ld) ==
    [ld EXCEPT !.status = "failed", !.errors = Append(@, 0)]

\* a faulty variant of ChunkError: the chunk's failure fails the document
ChunkErrorFails(ld, n) == [ld EXCEPT !.errors = Append(@, n), !.status = "failed"]

\* except Exception as e (chunk level): f"Chunk {chunk_number}: {str(e)}"
ChunkError(ld, n) == [ld EXCEPT !.errors = Append(@, n)]

\* the chunk-level entries of an errors list
ChunkErrors(ld) == SelectSeq(ld.errors, LAMBDA e : e # 0)

\* the batch can still go through one more chunk-level failure
MayFail ==
    LET RECURSIVE Sum(_)
        Sum(S) == IF S = {} THEN 0
                  ELSE LET w == CHOOSE x \in S : TRUE
                       IN Len(ChunkErrors(log_data[w])) + Sum(S \ {w})
    IN Sum(Workers) < MaxErrors

\* cleaned_text += in_file.read() for i in range(1, len(chunks) + 1),
\* skipping a file that does not exist
RECURSIVE ConcatFilesFrom(_, _, _)
ConcatFilesFrom(fs, k, n) ==
    IF k > n THEN <<>>
    ELSE (IF k <= Len(fs) THEN fs[k] ELSE <<>>) \o ConcatFilesFrom(fs, k + 1, n)

\* a faulty variant of Combine: range(1, len(chunks)) leaves the last file out
CombineShort(fs, n) == ConcatFilesFrom(fs, 1, n - 1)

\* for i in range(1, len(chunks) + 1): the chunk files 1..n, in index order
Combine(fs, n) == ConcatFilesFrom(fs, 1, n)

\* text = read_file_with_fallback_encoding(file_path); chunks = chunk_text(text);
\* log_data["total_chunks"] = len(chunks) -- or the read raises
ReadAndChunk(w) ==
    /\ pc[w] = "start"
    /\ \/ /\ chunks' = [chunks EXCEPT ![w] = chunk_text(text[w], chunk_size)]
          /\ bound' = [bound EXCEPT ![w] = @ \cup {"chunks"}]
          /\ log_data' = [log_data EXCEPT
                 ![w].total_chunks = Len(chunks'[w]),
                 ![w].keys = @ \cup {"total_chunks"}]
          /\ pc' = [pc EXCEPT ![w] = "persist"]
       \/ /\ log_data' = [log_data EXCEPT ![w] = DocFailed(@)]
          /\ pc' = [pc EXCEPT ![w] = "finally"]
          /\ UNCHANGED <<chunks, bound>>
    /\ UNCHANGED <<gateVars, mainVars, chunkVars, text, cleaned_chunks, files,
                   output, log_file, i, chunk, cleaned_chunk, was_cleaned,
                   attempt, waits, nap, result, persisted, outcomes,
                   all_rejected, torn>>

\* "Generate all chunks first": chunk files 1..len(chunks) are written in
\* order, then cleaned_chunks = 0 -- or the write of file k + 1 raises
PersistChunks(w) ==
    /\ pc[w] = "persist"
    /\ \/ /\ files' = [files EXCEPT ![w] = chunks[w]]
          /\ cleaned_chunks' = [cleaned_chunks EXCEPT ![w] = 0]
          /\ bound' = [bound EXCEPT ![w] = @ \cup {"cleaned_chunks"}]
          /\ i' = [i EXCEPT ![w] = IF chunks[w] = <<>> THEN 0 ELSE 1]
          /\ pc' = [pc EXCEPT ![w] = IF chunks[w] = <<>> THEN "recombine" ELSE "loop"]
          /\ UNCHANGED log_data
       \/ \E k \in 0..(Len(chunks[w]) - 1) :
          /\ files' = [files EXCEPT ![w] = SubSeq(chunks[w], 1, k)]
          /\ log_data' = [log_data EXCEPT ![w] = DocFailed(@)]
          /\ pc' = [pc EXCEPT ![w] = "finally"]
          /\ UNCHANGED <<cleaned_chunks, bound, i>>
    /\ UNCHANGED <<gateVars, mainVars, chunkVars, text, chunks, output,
                   log_file, chunk, cleaned_chunk, was_cleaned, attempt, waits,
                   nap, result, persisted, outcomes, all_rejected, torn>>

\* top of "while True": the chunk file is re-read and clean_text_chunk is
\* called (tenacity's first attempt enters the rate-limited wrapper) -- or
\* the read raises and the loop's handler records it and sleeps
LoopRead(w) ==
    /\ pc[w] = "loop"
    /\ \/ /\ chunk' = [chunk EXCEPT ![w] = files[w][i[w]]]
          /\ attempt' = [attempt EXCEPT ![w] = 1]
          /\ pc' = [pc EXCEPT ![w] = "gate"]
          /\ UNCHANGED <<log_data, nap>>
       \/ /\ MayFail
          /\ log_data' = [log_data EXCEPT ![w] = ChunkError(@, i[w])]
          /\ nap' = [nap EXCEPT ![w] = PauseSeconds]
          /\ pc' = [pc EXCEPT ![w] = "pause"]
          /\ UNCHANGED <<chunk, attempt>>
    /\ waits' = [waits EXCEPT ![w] = <<>>]
    /\ outcomes' = [outcomes EXCEPT ![w] = <<>>]
    /\ UNCHANGED <<gateVars, mainVars, chunkVars, text, bound, chunks,
                   cleaned_chunks, files, output, log_file, i, cleaned_chunk,
                   was_cleaned, result, persisted, all_rejected, torn>>

\* the body of clean_text_chunk, reached through the gate: one service call
\* (attempt[w] is tenacity's count for this call and ends with it).
\* Text comes back stripped, with True; a content-filtering APIError gives
\* (chunk, False); any other error is re-raised to tenacity, which sleeps and
\* tries again or, after the last attempt, raises to the chunk loop's
\* handler, which records it and sleeps
ServiceCall(w) ==
    /\ pc[w] = "call"
    /\ \E o \in ServiceOutcomes :
       /\ o.kind = "error" => MayFail
       /\ outcomes' = [outcomes EXCEPT ![w] = Append(@, o.kind)]
       /\ all_rejected' = [all_rejected EXCEPT ![w] = @ /\ o.kind = "rejected"]
       /\ IF o.kind = "text"
          THEN /\ cleaned_chunk' = [cleaned_chunk EXCEPT ![w] = Strip(o.text)]
               /\ was_cleaned' = [was_cleaned EXCEPT ![w] = TRUE]
               /\ attempt' = [attempt EXCEPT ![w] = 0]
               /\ pc' = [pc EXCEPT ![w] = "post"]
               /\ UNCHANGED <<log_data, nap, waits>>
          ELSE IF IsContentFiltering(o.kind)
          THEN /\ cleaned_chunk' = [cleaned_chunk EXCEPT ![w] = chunk[w]]
               /\ was_cleaned' = [was_cleaned EXCEPT ![w] = FALSE]
               /\ attempt' = [attempt EXCEPT ![w] = 0]
               /\ pc' = [pc EXCEPT ![w] = "post"]
               /\ UNCHANGED <<log_data, nap, waits>>
          ELSE IF StopAfterAttempt(attempt[w])
          THEN /\ log_data' = [log_data EXCEPT ![w] = ChunkError(@, i[w])]
               /\ nap' = [nap EXCEPT ![w] = PauseSeconds]
               /\ attempt' = [attempt EXCEPT ![w] = 0]
               /\ pc' = [pc EXCEPT ![w] = "pause"]
               /\ UNCHANGED <<cleaned_chunk, was_cleaned, waits>>
          ELSE /\ nap' = [nap EXCEPT ![w] = WaitExponential(attempt[w])]
               /\ waits' = [waits EXCEPT ![w] = Append(@, WaitExponential(attempt[w]))]
               /\ pc' = [pc EXCEPT ![w] = "backoff"]
               /\ UNCHANGED <<log_data, cleaned_chunk, was_cleaned, attempt>>
    /\ UNCHANGED <<gateVars, mainVars, chunkVars, text, bound, chunks,
                   cleaned_chunks, files, output, log_file, i, chunk,
                   result, persisted, torn>>

\* a faulty variant of BackoffDone: the gate is wrapped around the retry
\* instead of inside it, so a repeated attempt calls the service directly
BackoffDoneUngated(w) ==
    /\ pc[w] = "backoff"
    /\ attempt' = [attempt EXCEPT ![w] = @ + 1]
    /\ nap' = [nap EXCEPT ![w] = 0]
    /\ pc' = [pc EXCEPT ![w] = "call"]
    /\ UNCHANGED <<gateVars, mainVars, chunkVars, text, bound, chunks,
                   cleaned_chunks, log_data, files, output, log_file, i, chunk,
                   cleaned_chunk, was_cleaned, waits, result, persisted,
                   outcomes, all_rejected, torn>>

\* tenacity's sleep is over (its length is nap[w]; the model lets the worker
\* go on at any later moment): the next attempt enters the rate-limited
\* wrapper
BackoffDone(w) ==
    /\ pc[w] = "backoff"
    /\ attempt' = [attempt EXCEPT ![w] = @ + 1]
    /\ nap' = [nap EXCEPT ![w] = 0]
    /\ pc' = [pc EXCEPT ![w] = "gate"]
    /\ UNCHANGED <<gateVars, mainVars, chunkVars, text, bound, chunks,
                   cleaned_chunks, log_data, files, output, log_file, i, chunk,
                   cleaned_chunk, was_cleaned, waits, result, persisted,
                   outcomes, all_rejected, torn>>

\* a faulty variant of ChunkInfo: the record carries the loop index i
\* instead of chunk_number = i + 1
ChunkInfoLoopIndex(w) ==
    [chunk_number |-> i[w] - 1,
     original_length |-> Len(chunk[w]),
     cleaned_length |-> Len(cleaned_chunk[w]),
     cleaned |-> was_cleaned[w]]

\* chunk_info = {...}
ChunkInfo(w) ==
    [chunk_number |-> i[w],
     original_length |-> Len(chunk[w]),
     cleaned_length |-> Len(cleaned_chunk[w]),
     cleaned |-> was_cleaned[w]]

\* out_file.write(cleaned_chunk + "\n\n")
Persisted(cleaned) == cleaned \o <<NL, NL>>

\* a faulty variant of Counted: the chunk is counted whether cleaned or not
CountedAlways(w) == cleaned_chunks[w] + 1

\* cleaned_chunks after "if was_cleaned: cleaned_chunks += 1"
Counted(w) == IF was_cleaned[w] THEN cleaned_chunks[w] + 1 ELSE cleaned_chunks[w]

\* clean_text_chunk returned: count the chunk if cleaned, overwrite the chunk
\* file with the result and a blank line, append the chunk's record, break --
\* or the overwrite raises (before or after open() truncated the file) and
\* the loop's handler records it and sleeps
PostCall(w) ==
    /\ pc[w] = "post"
    /\ cleaned_chunks' = [cleaned_chunks EXCEPT ![w] = Counted(w)]
    /\ \/ /\ files' = [files EXCEPT ![w][i[w]] = Persisted(cleaned_chunk[w])]
          /\ log_data' = [log_data EXCEPT
                 ![w].chunks_info = Append(@, ChunkInfo(w))]
          /\ persisted' = [persisted EXCEPT ![w] = Append(@, cleaned_chunk[w])]
          /\ i' = [i EXCEPT ![w] = IF @ = Len(chunks[w]) THEN 0 ELSE @ + 1]
          /\ pc' = [pc EXCEPT
                 ![w] = IF i[w] = Len(chunks[w]) THEN "recombine" ELSE "loop"]
          /\ UNCHANGED <<nap, torn>>
       \/ \E truncated \in BOOLEAN :
          /\ MayFail
          /\ files' = [files EXCEPT ![w][i[w]] = IF truncated THEN <<>> ELSE @]
          /\ torn' = [torn EXCEPT ![w] = @ \/ truncated]
          /\ log_data' = [log_data EXCEPT ![w] = ChunkError(@, i[w])]
          /\ nap' = [nap EXCEPT ![w] = PauseSeconds]
          /\ pc' = [pc EXCEPT ![w] = "pause"]
          /\ UNCHANGED <<persisted, i>>
    /\ waits' = [waits EXCEPT ![w] = <<>>]
    /\ outcomes' = [outcomes EXCEPT ![w] = <<>>]
    /\ UNCHANGED <<gateVars, mainVars, chunkVars, text, bound, chunks, output,
                   log_file, chunk, cleaned_chunk, was_cleaned, attempt,
                   result, all_rejected>>

\* a faulty variant of PauseDone: after the pause the loop gives the chunk
\* up and goes on to the next one
PauseDoneSkips(w) ==
    /\ pc[w] = "pause"
    /\ nap' = [nap EXCEPT ![w] = 0]
    /\ i' = [i EXCEPT ![w] = IF @ = Len(chunks[w]) THEN 0 ELSE @ + 1]
    /\ pc' = [pc EXCEPT
           ![w] = IF i[w] = Len(chunks[w]) THEN "recombine" ELSE "loop"]
    /\ UNCHANGED <<gateVars, mainVars, chunkVars, text, bound, chunks,
                   cleaned_chunks, log_data, files, output, log_file, chunk,
                   cleaned_chunk, was_cleaned, attempt, waits, result,
                   persisted, outcomes, all_rejected, torn>>

\* time.sleep(5) is over (the model lets the worker go on at any later
\* moment): round the "while True" loop again, same chunk
PauseDone(w) ==
    /\ pc[w] = "pause"
    /\ nap' = [nap EXCEPT ![w] = 0]
    /\ pc' = [pc EXCEPT ![w] = "loop"]
    /\ UNCHANGED <<gateVars, mainVars, chunkVars, text, bound, chunks,
                   cleaned_chunks, log_data, files, output, log_file, i, chunk,
                   cleaned_chunk, was_cleaned, attempt, waits, result,
                   persisted, outcomes, all_rejected, torn>>

\* log_data at the end of the try block
Completed(ld, w) ==
    [ld EXCEPT !.status = "completed",
               !.cleaned_chunks = cleaned_chunks[w],
               !.keys = @ \cup {"cleaned_chunks"}]

\* "Combine chunks into a single file": every chunk file is read in index
\* order, the concatenation is written, the log is marked completed -- or a
\* read or the write raises
Recombine(w) ==
    /\ pc[w] = "recombine"
    /\ \/ /\ output' = [output EXCEPT
                 ![w] = Append(@, Combine(files[w], Len(chunks[w])))]
          /\ log_data' = [log_data EXCEPT ![w] = Completed(@, w)]
       \/ /\ log_data' = [log_data EXCEPT ![w] = DocFailed(@)]
          /\ UNCHANGED output
    /\ pc' = [pc EXCEPT ![w] = "finally"]
    /\ UNCHANGED <<gateVars, mainVars, chunkVars, text, bound, chunks,
                   cleaned_chunks, files, log_file, i, chunk, cleaned_chunk,
                   was_cleaned, attempt, waits, nap, result, persisted,
                   outcomes, all_rejected, torn>>

\* return cleaned_chunks, len(chunks): an unassigned local raises
\* UnboundLocalError out of process_text_file
ReturnValue(w) ==
    IF Locals \subseteq bound[w]
    THEN [raised |-> FALSE, cleaned |-> cleaned_chunks[w], total |-> Len(chunks[w])]
    ELSE [raised |-> TRUE, cleaned |-> 0, total |-> 0]

\* finally: json.dump(log_data, log); then the return statement
Finally(w) ==
    /\ pc[w] = "finally"
    /\ log_file' = [log_file EXCEPT ![w] = Append(@, log_data[w])]
    /\ result' = [result EXCEPT ![w] = ReturnValue(w)]
    /\ pc' = [pc EXCEPT ![w] = "done"]
    /\ UNCHANGED <<gateVars, mainVars, chunkVars, text, bound, chunks,
                   cleaned_chunks, log_data, files, output, i, chunk,
                   cleaned_chunk, was_cleaned, attempt, waits, nap, persisted,
                   outcomes, all_rejected, torn>>

NoResult == [raised |-> FALSE, cleaned |-> 0, total |-> 0]

\* process_text_file before its first statement
DocStart ==
    /\ bound = [w \in Workers |-> {}]
    /\ chunks = [w \in Workers |-> <<>>]
    /\ cleaned_chunks = [w \in Workers |-> 0]
    /\ log_data = [w \in Workers |-> NewLog]
    /\ files = [w \in Workers |-> <<>>]
    /\ output = [w \in Workers |-> <<>>]
    /\ log_file = [w \in Workers |-> <<>>]
    /\ i = [w \in Workers |-> 0]
    /\ chunk = [w \in Workers |-> <<>>]
    /\ cleaned_chunk = [w \in Workers |-> <<>>]
    /\ was_cleaned = [w \in Workers |-> FALSE]
    /\ attempt = [w \in Workers |-> 0]
    /\ waits = [w \in Workers |-> <<>>]
    /\ nap = [w \in Workers |-> 0]
    /\ result = [w \in Workers |-> NoResult]
    /\ persisted = [w \in Workers |-> <<>>]
    /\ outcomes = [w \in Workers |-> <<>>]
    /\ all_rejected = [w \in Workers |-> TRUE]
    /\ torn = [w \in Workers |-> FALSE]

DocIdle ==
    /\ text = [w \in Workers |-> <<>>]
    /\ DocStart

(***************************************************************************)
(* main: one worker per document, results taken as they complete           *)
(***************************************************************************)
\* if cleaned > 0: successful_files += 1
CountsAsSuccessful(res) == res.cleaned > 0

\* for future in as_completed(futures): cleaned, total = future.result(); ...
\* result() re-raises what process_text_file raised, which leaves the loop
MainCollect(w) ==
    /\ mpc = "collect"
    /\ pc[w] = "done"
    /\ w \notin collected
    /\ IF result[w].raised
       THEN /\ mpc' = "raised"
            /\ UNCHANGED <<collected, successful_files, total_chunks,
                           total_cleaned_chunks>>
       ELSE /\ collected' = collected \cup {w}
            /\ total_cleaned_chunks' = total_cleaned_chunks + result[w].cleaned
            /\ total_chunks' = total_chunks + result[w].total
            /\ successful_files' =
                   IF CountsAsSuccessful(result[w])
                   THEN successful_files + 1 ELSE successful_files
            /\ UNCHANGED mpc
    /\ UNCHANGED <<gateVars, pc, docVars, chunkVars, failed_files>>

\* failed_files = len(txt_files) - successful_files; the summary is written
MainSummary ==
    /\ mpc = "collect"
    /\ collected = Workers
    /\ failed_files' = Cardinality(Workers) - successful_files
    /\ mpc' = "done"
    /\ UNCHANGED <<gateVars, pc, docVars, chunkVars, collected,
                   successful_files, total_chunks, total_cleaned_chunks>>

\* the exception leaves "with ThreadPoolExecutor", which first waits for the
\* workers still running, and then leaves main: no summary is written
MainAbort ==
    /\ mpc = "raised"
    /\ \A w \in Workers : pc[w] = "done"
    /\ mpc' = "aborted"
    /\ UNCHANGED <<gateVars, pc, docVars, chunkVars, collected,
                   successful_files, total_chunks, total_cleaned_chunks,
                   failed_files>>

MainStart ==
    /\ mpc = "collect"
    /\ collected = {}
    /\ successful_files = 0
    /\ total_chunks = 0
    /\ total_cleaned_chunks = 0
    /\ failed_files = 0

MainIdle ==
    /\ mpc = "idle"
    /\ collected = {}
    /\ successful_files = 0
    /\ total_chunks = 0
    /\ total_cleaned_chunks = 0
    /\ failed_files = 0

(***************************************************************************)
(* Spec: the batch                                                         *)
(***************************************************************************)
ChunkIdle ==
    /\ in_text = <<>>
    /\ in_size = 1
    /\ cpc = "idle"
    /\ out_chunks = <<>>
    /\ out_lines = <<>>

Init ==
    /\ GateInit
    /\ pc = [w \in Workers |-> "start"]
    /\ text \in Batches
    /\ DocStart
    /\ MainStart
    /\ ChunkIdle

\* a worker of the batch at the gate
DocGateEnter(w) == GateEnter(w) /\ UNCHANGED started
DocGateWake(w) == GateWake(w) /\ UNCHANGED started

Next ==
    \/ \E w \in Workers : ReadAndChunk(w)
    \/ \E w \in Workers : PersistChunks(w)
    \/ \E w \in Workers : LoopRead(w)
    \/ \E w \in Workers : DocGateEnter(w)
    \/ \E w \in Workers : DocGateWake(w)
    \/ \E w \in Workers : ServiceCall(w)
    \/ \E w \in Workers : BackoffDone(w)
    \/ \E w \in Workers : PostCall(w)
    \/ \E w \in Workers : PauseDone(w)
    \/ \E w \in Workers : Recombine(w)
    \/ \E w \in Workers : Finally(w)
    \/ \E w \in Workers : MainCollect(w)
    \/ MainSummary
    \/ MainAbort
    \/ Tick

Spec == Init /\ [][Next]_vars

(***************************************************************************)
(* ChunkSpec: chunk_text on every text and target size within the bounds   *)
(***************************************************************************)
Texts == UNION {[1..n -> Alphabet] : n \in 0..MaxTextLen}

\* chunks = chunk_text(T, S)
CallChunkText ==
    /\ cpc = "input"
    /\ out_chunks' = chunk_text(in_text, in_size)
    /\ cpc' = "chunked"
    /\ UNCHANGED <<gateVars, pc, docVars, mainVars, in_text, in_size, out_lines>>

\* '\n'.join(chunks).split('\n')
Rejoin ==
    /\ cpc = "chunked"
    /\ out_lines' = Split(Join(out_chunks))
    /\ cpc' = "rejoined"
    /\ UNCHANGED <<gateVars, pc, docVars, mainVars, in_text, in_size, out_chunks>>

ChunkInit ==
    /\ in_text \in Texts
    /\ in_size \in 1..MaxChunkSize
    /\ cpc = "input"
    /\ out_chunks = <<>>
    /\ out_lines = <<>>
    /\ GateInit
    /\ pc = [w \in Workers |-> "idle"]
    /\ DocIdle
    /\ MainIdle

ChunkNext == CallChunkText \/ Rejoin

ChunkSpec == ChunkInit /\ [][ChunkNext]_vars

(***************************************************************************)
(* RateSpec: the gate under an arbitrary arrival pattern.  A worker calls  *)
(* the wrapped function whenever it likes; the function returns at once.   *)
(***************************************************************************)
Arrive(w) ==
    /\ pc[w] = "idle"
    /\ pc' = [pc EXCEPT ![w] = "gate"]
    /\ UNCHANGED <<gateVars, docVars, mainVars, chunkVars>>

\* the gate, with the moment it releases the call noted in started
RateGateEnter(w) ==
    /\ GateEnter(w)
    /\ started' = IF pc'[w] = "call" THEN Append(started, 0) ELSE started

RateGateWake(w) ==
    /\ GateWake(w)
    /\ started' = Append(started, 0)

Return(w) ==
    /\ pc[w] = "call"
    /\ pc' = [pc EXCEPT ![w] = "idle"]
    /\ UNCHANGED <<gateVars, docVars, mainVars, chunkVars>>

RateInit ==
    /\ GateInit
    /\ pc = [w \in Workers |-> "idle"]
    /\ DocIdle
    /\ MainIdle
    /\ ChunkIdle

RateNext ==
    \/ \E w \in Workers : Arrive(w)
    \/ \E w \in Workers : RateGateEnter(w)
    \/ \E w \in Workers : RateGateWake(w)
    \/ \E w \in Workers : Return(w)
    \/ Tick

RateSpec == RateInit /\ [][RateNext]_vars

(***************************************************************************)
(* Properties of the gate (RateSpec)                                       *)
(***************************************************************************)
\* C1: the gate never lets more than max_calls wrapped invocations start
\* within any trailing window of length period (started holds the ages,
\* all below period, of the moments the gate released a call)
C1_AtMostMaxCallsStartPerWindow == Len(started) <= max_calls

(***************************************************************************)
(* Properties of the batch (Spec)                                          *)
(***************************************************************************)
\* the log written for the document of worker w
WrittenLog(w) == log_file[w][1]

LogWritten(w) == Len(log_file[w]) >= 1

\* C2: process_text_file always ends by returning a (cleaned, total) pair,
\* whatever failed inside it, and main never leaves the collection loop
\* through an exception
C2_NeverRaisesToMain ==
    /\ \A w \in Workers : pc[w] = "done" => ~result[w].raised
    /\ mpc \notin {"raised", "aborted"}

\* the documents whose written log has the given status
WithStatus(s) == {w \in Workers : LogWritten(w) /\ WrittenLog(w).status = s}

\* C3: in the batch summary failed_files is the number of documents whose
\* log has status "failed" and successful_files the number whose log has
\* status "completed"
C3_SummaryCountsFollowLogStatus ==
    mpc = "done" =>
        /\ failed_files = Cardinality(WithStatus("failed"))
        /\ successful_files = Cardinality(WithStatus("completed"))

\* C4: once process_text_file has ended the log has been written exactly
\* once (and it is never written twice); what is written has status
\* "completed" exactly when the document got through recombination, and
\* otherwise status "failed" with a non-empty errors list; "processing" is
\* never written
C4_LogWrittenOnceWithTerminalStatus ==
    \A w \in Workers :
        /\ Len(log_file[w]) <= 1
        /\ pc[w] = "done" => Len(log_file[w]) = 1
        /\ \A k \in DOMAIN log_file[w] :
              /\ log_file[w][k].status \in {"completed", "failed"}
              /\ log_file[w][k].status = "completed" <=> Len(output[w]) = 1
              /\ log_file[w][k].status = "failed" => log_file[w][k].errors # <<>>

\* C4 witness: one document of the batch ended failed and the other completed,
\* each with its log written
C4_Witness ==
    \E w, v \in Workers :
        /\ pc[w] = "done" /\ LogWritten(w) /\ WrittenLog(w).status = "failed"
        /\ pc[v] = "done" /\ LogWritten(v) /\ WrittenLog(v).status = "completed"

\* C8: every written log carries a total_chunks value, equal to the chunk
\* count of the document
C8_WrittenLogHasTotalChunks ==
    \A w \in Workers : \A k \in DOMAIN log_file[w] :
        /\ "total_chunks" \in log_file[w][k].keys
        /\ log_file[w][k].total_chunks = Len(chunk_text(text[w], chunk_size))

(***************************************************************************)
(* Properties of chunk_text (ChunkSpec)                                    *)
(***************************************************************************)
\* the lines that hold something other than whitespace
RECURSIVE NonBlank(_)
NonBlank(lines) ==
    IF lines = <<>> THEN <<>>
    ELSE (IF Strip(lines[1]) # <<>> THEN <<lines[1]>> ELSE <<>>)
         \o NonBlank(Tail(lines))

\* C5 as stated: the lines of the newline-join of chunk_text(T, S) are
\* exactly the lines of T
C5_LinesReproducedExactly ==
    cpc = "rejoined" => out_lines = Split(in_text)

\* C5 as amended: the lines of T that hold something other than whitespace
\* come back unchanged, all of them, once each and in order, and the rejoined
\* text never has more lines than T (whitespace-only lines may be lost)
C5_NonBlankLinesReproduced ==
    cpc = "rejoined" =>
        /\ NonBlank(out_lines) = NonBlank(Split(in_text))
        /\ Len(out_lines) <= Len(Split(in_text))

\* C5 witness: a text with content whose rejoined chunks have lost a line
C5_Witness ==
    /\ cpc = "rejoined"
    /\ NonBlank(Split(in_text)) # <<>>
    /\ Len(out_lines) < Len(Split(in_text))

(***************************************************************************)
(* Properties of recombination and of the retried service call (Spec)      *)
(***************************************************************************)
\* every result followed by the blank line it is persisted with, in order
RECURSIVE InOrder(_)
InOrder(rs) ==
    IF rs = <<>> THEN <<>>
    ELSE rs[1] \o <<NL, NL>> \o InOrder(Tail(rs))

\* C6: the cleaned output written at recombination is the concatenation, in
\* index order 1..n, of each chunk's persisted result (the invoker's result
\* and the blank line written after it): one result per chunk, none left out,
\* repeated or out of place
C6_OutputIsOrderedConcatenation ==
    \A w \in Workers : \A k \in DOMAIN output[w] :
        /\ Len(persisted[w]) = Len(chunks[w])
        /\ output[w][k] = InOrder(persisted[w])

\* C6 witness: an output written for a two-chunk document of which one chunk
\* was cleaned, the other was not, and one had to be tried again
C6_Witness ==
    \E w \in Workers :
        /\ Len(output[w]) = 1
        /\ Len(chunks[w]) = 2
        /\ log_data[w].errors # <<>>
        /\ \E a, b \in DOMAIN log_data[w].chunks_info :
              /\ log_data[w].chunks_info[a].cleaned
              /\ ~log_data[w].chunks_info[b].cleaned

\* a document that ended with its output written and every service call
\* rejected
AllRejectedDone(w) ==
    pc[w] = "done" /\ all_rejected[w] /\ Len(output[w]) = 1

Exhausted(w) == pc[w] = "pause" /\ outcomes[w] # <<>>

\* C9: a clean_text_chunk call makes at most 3 service attempts; it raises to
\* its caller only after exactly 3 attempts, each of which failed with an
\* error that is not a rejection; and while it sleeps between attempts
\* fewer than 3 have been made
C9_ExactlyThreeAttempts ==
    \A w \in Workers :
        /\ Len(outcomes[w]) <= 3
        /\ Exhausted(w) => outcomes[w] = <<"error", "error", "error">>
        /\ pc[w] = "backoff" => Len(outcomes[w]) < 3

\* C9 witness: a call that raised after its third failed attempt
C9_Witness ==
    \E w \in Workers :
        Exhausted(w) /\ Len(outcomes[w]) = 3 /\ Len(waits[w]) = 2

\* the step in which the service call of w answers with a rejection
Rejection(w) ==
    pc[w] = "call" /\ outcomes'[w] = Append(outcomes[w], "rejected")

\* C10: the step in which the service rejects the chunk ends the call at
\* once, with (the chunk text unchanged, False) handed back to
\* process_text_file: no further attempt and no sleep is set up, and the
\* errors list of the log stays as it was
C10_RejectionEndsCallWithOriginal ==
    [][\A w \in Workers :
          Rejection(w) =>
              /\ pc'[w] = "post"
              /\ cleaned_chunk'[w] = chunk[w]
              /\ was_cleaned'[w] = FALSE
              /\ attempt'[w] = 0
              /\ nap'[w] = 0
              /\ log_data'[w].errors = log_data[w].errors]_vars

\* C10 witness: a call that was rejected on its second attempt has returned
C10_Witness ==
    \E w \in Workers :
        /\ pc[w] = "post"
        /\ outcomes[w] = <<"error", "rejected">>
        /\ cleaned_chunk[w] = chunk[w]
        /\ ~was_cleaned[w]

(***************************************************************************)
(* The gate in front of the service call                                   *)
(***************************************************************************)
\* the step in which the gate records a timestamp for worker w and lets its
\* call go on
Recorded(w) ==
    /\ pc[w] \in {"gate", "gate_sleep"}
    /\ pc'[w] = "call"
    /\ Len(calls') = Len(IF pc[w] = "gate" THEN Prune(calls) ELSE calls) + 1

\* the step in which worker w calls the service
ServiceCalled(w) == Len(outcomes'[w]) = Len(outcomes[w]) + 1

\* C11: a worker calls the service only from behind the gate; it gets behind
\* the gate only by a step that records a timestamp, and leaves it only by
\* making the service call: recorded timestamps and service calls alternate
\* one to one for every worker, first attempts, repeated attempts and
\* re-invocations from the chunk loop alike
C11_EveryServiceCallPassesTheGate ==
    [][\A w \in Workers :
          /\ ServiceCalled(w) => pc[w] = "call"
          /\ (pc'[w] = "call" /\ pc[w] # "call") => Recorded(w)
          /\ (pc[w] = "call" /\ pc'[w] # "call") => ServiceCalled(w)]_vars

\* C11 witness: the second attempt of a call whose first attempt failed
\* stands behind the gate, its timestamp recorded
C11_Witness ==
    \E w \in Workers :
        /\ pc[w] = "call"
        /\ attempt[w] = 2
        /\ outcomes[w] = <<"error">>
        /\ calls # <<>>

\* C12: a worker waiting at the gate because the window is full does not hold
\* the lock while it waits
C12_NoLockHeldWhileWaiting ==
    \A w \in Workers : pc[w] = "gate_sleep" => lock # w

\* the recorded timestamps newer than now - period
InWindow(cs) == SelectSeq(cs, LAMBDA age : age < period)

\* C13: the shared list never holds more than max_calls timestamps newer
\* than now - period, also right after a worker that waited has recorded its
\* own
C13_AtMostMaxCallsInWindow == Len(InWindow(calls)) <= max_calls

\* C13 witness: a worker that waited has just recorded its timestamp, and
\* the list is longer than max_calls
C13_Witness ==
    \E w \in Workers :
        /\ pc[w] = "call"
        /\ Len(calls) = max_calls + 1
        /\ Len(InWindow(calls)) = max_calls

(***************************************************************************)
(* The order of the work on one document (Spec)                            *)
(***************************************************************************)
\* worker w is in the chunk loop ("for i in range(len(chunks))")
InLoop(w) ==
    pc[w] \in {"loop", "gate", "gate_sleep", "call", "backoff", "post", "pause"}

\* the phase of the document of w: read and chunk, persist, transform,
\* recombine, finalize, ended
Phase(w) ==
    CASE pc[w] = "start" -> 1
      [] pc[w] = "persist" -> 2
      [] InLoop(w) -> 3
      [] pc[w] = "recombine" -> 4
      [] pc[w] = "finally" -> 5
      [] pc[w] = "done" -> 6
      [] OTHER -> 0

\* the chunk files of the chunks finished so far hold their results
ResultsWritten(w, n) ==
    \A k \in 1..n : files[w][k] = persisted[w][k] \o <<NL, NL>>

\* C16: while a document's chunks are transformed every chunk file exists,
\* and the chunk being worked on is the first whose result is not yet
\* written and recorded; recombination starts with every chunk written and
\* recorded; the phase never goes back, the chunk number never goes back
\* inside the loop, and the status leaves "processing" at most once
C16_PhasesInOrder ==
    /\ [](\A w \in Workers :
            /\ InLoop(w) =>
                  /\ Len(files[w]) = Len(chunks[w])
                  /\ i[w] \in 1..Len(chunks[w])
                  /\ Len(log_data[w].chunks_info) = i[w] - 1
                  /\ Len(persisted[w]) = i[w] - 1
                  /\ ResultsWritten(w, i[w] - 1)
            /\ pc[w] = "recombine" =>
                  /\ Len(log_data[w].chunks_info) = Len(chunks[w])
                  /\ Len(persisted[w]) = Len(chunks[w])
                  /\ ResultsWritten(w, Len(chunks[w])))
    /\ [][\A w \in Workers :
            /\ Phase(w)' >= Phase(w)
            /\ (InLoop(w) /\ InLoop(w)') => i'[w] >= i[w]
            /\ log_data'[w].status # log_data[w].status
                  => log_data[w].status = "processing"]_vars

\* C16 witness: a two-chunk document that had a chunk fail has ended
\* completed
C16_Witness ==
    \E w \in Workers :
        /\ pc[w] = "done"
        /\ Len(chunks[w]) = 2
        /\ ChunkErrors(log_data[w]) # <<>>
        /\ log_data[w].status = "completed"

\* the chunk numbers of the records of a log
Numbers(info) == [k \in DOMAIN info |-> info[k].chunk_number]

\* C17: the chunk numbers in chunks_info are always 1, 2, ... without a
\* gap, at recombination there is one record for every chunk, and a step
\* that adds an error string adds exactly one and no chunks_info record
C17_OneRecordPerChunk ==
    /\ [](\A w \in Workers :
            /\ Numbers(log_data[w].chunks_info)
                   = [k \in 1..Len(log_data[w].chunks_info) |-> k]
            /\ pc[w] = "recombine" =>
                   Len(log_data[w].chunks_info) = Len(chunks[w]))
    /\ [][\A w \in Workers :
            log_data'[w].errors # log_data[w].errors =>
                /\ Len(log_data'[w].errors) = Len(log_data[w].errors) + 1
                /\ log_data'[w].chunks_info = log_data[w].chunks_info]_vars

\* C17 witness: a two-chunk document reaches recombination after a chunk
\* had failed
C17_Witness ==
    \E w \in Workers :
        /\ pc[w] = "recombine"
        /\ Len(chunks[w]) = 2
        /\ ChunkErrors(log_data[w]) # <<>>

\* the records of a log with cleaned = true
CleanedRecords(info) == SelectSeq(info, LAMBDA r : r.cleaned)

\* C19: the cleaned count process_text_file returns, and logs on completion,
\* is the number of chunks_info records with cleaned = true and is at most
\* the chunk count
C19_CleanedCountMatchesRecords ==
    \A w \in Workers :
        (pc[w] = "done" /\ ~result[w].raised) =>
            /\ result[w].cleaned = Len(CleanedRecords(log_data[w].chunks_info))
            /\ result[w].cleaned <= result[w].total
            /\ WrittenLog(w).status = "completed" =>
                   WrittenLog(w).cleaned_chunks = result[w].cleaned

(***************************************************************************)
(* The backoff between attempts (Spec)                                     *)
(***************************************************************************)
\* the waits are non-decreasing and none is above 10
WaitsBounded(ws) ==
    /\ \A k \in DOMAIN ws : ws[k] <= 10
    /\ \A k \in 1..(Len(ws) - 1) : ws[k] <= ws[k + 1]

\* C18 as stated: the wait before the 2nd attempt is 4, the wait before the
\* 3rd attempt is 8, none is above 10 and the waits are non-decreasing
C18_WaitsFourThenEight ==
    \A w \in Workers :
        /\ \A k \in DOMAIN waits[w] : waits[w][k] = (IF k = 1 THEN 4 ELSE 8)
        /\ WaitsBounded(waits[w])

\* C18 as amended: a call waits at most twice, 4 before the 2nd attempt and
\* 4 again before the 3rd; none is above 10 and the waits are non-decreasing
C18_WaitsFourThenFour ==
    \A w \in Workers :
        /\ Len(waits[w]) <= 2
        /\ \A k \in DOMAIN waits[w] : waits[w][k] = 4
        /\ pc[w] = "backoff" => nap[w] = 4
        /\ WaitsBounded(waits[w])

\* C18 witness: a call sleeps before its third attempt
C18_Witness ==
    \E w \in Workers :
        pc[w] = "backoff" /\ attempt[w] = 2 /\ Len(waits[w]) = 2

(***************************************************************************)
(* The size of the chunks (ChunkSpec)                                      *)
(***************************************************************************)
\* the lines of the chunks, in order
RECURSIVE LinesOf(_)
LinesOf(cs) ==
    IF cs = <<>> THEN <<>> ELSE Split(cs[1]) \o LinesOf(Tail(cs))

\* a can be had from b by leaving elements out
RECURSIVE IsSubseq(_, _)
IsSubseq(a, b) ==
    IF a = <<>> THEN TRUE
    ELSE IF b = <<>> THEN FALSE
    ELSE IF a[1] = b[1] THEN IsSubseq(Tail(a), Tail(b))
    ELSE IsSubseq(a, Tail(b))

\* C20: a chunk of chunk_text longer than the target size is one single
\* line (so a chunk of several lines is at most the target size long), and
\* the lines of the chunks are whole lines of the text, in the text's order
C20_OnlySingleLinesExceedTarget ==
    cpc \in {"chunked", "rejoined"} =>
        /\ \A k \in DOMAIN out_chunks :
              Len(out_chunks[k]) > in_size => Len(Split(out_chunks[k])) = 1
        /\ IsSubseq(LinesOf(out_chunks), Split(in_text))

\* C20 witness: a text of several chunks, one of them a line longer than the
\* target size
C20_Witness ==
    /\ cpc = "chunked"
    /\ Len(out_chunks) >= 2
    /\ \E k \in DOMAIN out_chunks : Len(out_chunks[k]) > in_size

(***************************************************************************)
(* FairSpec: the batch with its threads scheduled.  Every worker thread    *)
(* keeps running (a thread waiting for the gate's lock gets it once the     *)
(* lock stays free) and time keeps passing.                                *)
(***************************************************************************)
\* the steps of worker w outside the gate's lock acquisition
WorkerStep(w) ==
    \/ ReadAndChunk(w)
    \/ PersistChunks(w)
    \/ LoopRead(w)
    \/ DocGateWake(w)
    \/ ServiceCall(w)
    \/ BackoffDone(w)
    \/ PostCall(w)
    \/ PauseDone(w)
    \/ Recombine(w)
    \/ Finally(w)

Fairness ==
    /\ \A w \in Workers : WF_vars(WorkerStep(w) \/ DocGateEnter(w))
    /\ WF_vars(Tick)

FairSpec == Init /\ [][Next]_vars /\ Fairness

\* process_text_file of w has ended and its log is written
Ended(w) == pc[w] = "done" /\ LogWritten(w)

\* the document of w got through the chunk loop and then failed: a read of
\* a chunk file or the write of the output raised during recombination
RecombinationRaised(w) ==
    /\ Locals \subseteq bound[w]
    /\ log_data[w].status = "failed"

\* C14 as stated: a document whose chunk loop sees finitely many chunk-level
\* failures ends with status "completed" and its log written
C14_LoopLeadsToCompleted ==
    \A w \in Workers :
        InLoop(w) ~> (Ended(w) /\ WrittenLog(w).status = "completed")

\* C14 as amended: while the chunks are transformed the status stays
\* "processing" whatever fails for a chunk, recombination is reached with a
\* record for every chunk, and the document ends with its log written and
\* with status "completed" unless recombination itself raised
C14_LoopLeadsToRecombination ==
    \A w \in Workers :
        /\ [](InLoop(w) => log_data[w].status = "processing")
        /\ [](pc[w] = "recombine" =>
                 Len(log_data[w].chunks_info) = Len(chunks[w]))
        /\ InLoop(w) ~>
              (Ended(w) /\ (WrittenLog(w).status = "completed"
                               \/ RecombinationRaised(w)))

\* C14 witness: a document whose log holds a chunk-level error has ended
\* completed
C14_Witness ==
    \E w \in Workers :
        /\ Ended(w)
        /\ WrittenLog(w).status = "completed"
        /\ ChunkErrors(WrittenLog(w)) # <<>>

(***************************************************************************)
(* StallSpec: a batch in which the service fails every call made for one   *)
(* document, so that its worker goes round the chunk loop for ever.        *)
(***************************************************************************)
\* the worker whose service calls always fail
Stalled == CHOOSE w \in Workers : \A v \in Workers : w <= v

\* log_data["errors"].append(...) of the stalled document: the list grows
\* without end, the model keeps its first MaxErrors entries
ChunkErrorKept(ld, n) ==
    IF Len(ld.errors) < MaxErrors THEN ChunkError(ld, n) ELSE ld

\* the body of clean_text_chunk for the stalled document: the call fails with
\* an error that is not a rejection; tenacity sleeps and tries again or,
\* after the last attempt, raises to the chunk loop's handler
StalledServiceCall(w) ==
    /\ pc[w] = "call"
    /\ outcomes' = [outcomes EXCEPT ![w] = Append(@, "error")]
    /\ all_rejected' = [all_rejected EXCEPT ![w] = FALSE]
    /\ IF StopAfterAttempt(attempt[w])
       THEN /\ log_data' = [log_data EXCEPT ![w] = ChunkErrorKept(@, i[w])]
            /\ nap' = [nap EXCEPT ![w] = PauseSeconds]
            /\ attempt' = [attempt EXCEPT ![w] = 0]
            /\ pc' = [pc EXCEPT ![w] = "pause"]
            /\ UNCHANGED waits
       ELSE /\ nap' = [nap EXCEPT ![w] = WaitExponential(attempt[w])]
            /\ waits' = [waits EXCEPT ![w] = Append(@, WaitExponential(attempt[w]))]
            /\ pc' = [pc EXCEPT ![w] = "backoff"]
            /\ UNCHANGED <<log_data, attempt>>
    /\ UNCHANGED <<gateVars, mainVars, chunkVars, text, bound, chunks,
                   cleaned_chunks, files, output, log_file, i, chunk,
                   cleaned_chunk, was_cleaned, result, persisted, torn>>

\* the service call of worker w in this batch
ServiceCallOf(w) ==
    IF w = Stalled THEN StalledServiceCall(w) ELSE ServiceCall(w)

\* the steps of worker w outside the gate's lock acquisition
StallWorkerStep(w) ==
    \/ ReadAndChunk(w)
    \/ PersistChunks(w)
    \/ LoopRead(w)
    \/ DocGateWake(w)
    \/ ServiceCallOf(w)
    \/ BackoffDone(w)
    \/ PostCall(w)
    \/ PauseDone(w)
    \/ Recombine(w)
    \/ Finally(w)

\* the document whose calls all fail has one chunk or none (without chunks
\* it makes no service call), the others are any document
StallInit ==
    /\ GateInit
    /\ pc = [w \in Workers |-> "start"]
    /\ text \in [Workers -> DocTexts]
    /\ Len(chunk_text(text[Stalled], chunk_size)) <= 1
    /\ DocStart
    /\ MainStart
    /\ ChunkIdle

StallNext ==
    \/ \E w \in Workers : StallWorkerStep(w)
    \/ \E w \in Workers : DocGateEnter(w)
    \/ \E w \in Workers : MainCollect(w)
    \/ MainSummary
    \/ MainAbort
    \/ Tick

\* every worker thread keeps running and time keeps passing; a thread
\* waiting for the gate's lock gets it if the lock is free again and again
\* (the stalled worker spends its sleeps between attempts outside the gate)
StallFairness ==
    /\ \A w \in Workers : WF_vars(StallWorkerStep(w))
    /\ \A w \in Workers : SF_vars(DocGateEnter(w))
    /\ WF_vars(Tick)

StallSpec == StallInit /\ [][StallNext]_vars /\ StallFairness

\* C15: the stalled document never leaves its chunk loop once in it, and
\* every other document still ends with a terminal status in its written log
C15_OthersEndDespiteStall ==
    /\ [][InLoop(Stalled) => InLoop(Stalled)']_vars
    /\ \A w \in Workers \ {Stalled} :
          <>(Ended(w) /\ WrittenLog(w).status \in {"completed", "failed"})

\* C15 witness: a two-chunk document has ended completed while the stalled
\* document, its calls exhausted at least once, is still in its chunk loop
C15_Witness ==
    \E w \in Workers \ {Stalled} :
        /\ Ended(w)
        /\ WrittenLog(w).status = "completed"
        /\ Len(chunks[w]) = 2
        /\ InLoop(Stalled)
        /\ ChunkErrors(log_data[Stalled]) # <<>>

=============================================================================
